---- MODULE Spec2Model ----
(***************************************************************************)
(* Model of the eCryptfs extent engines of gaes/ecryptfs_4.7_kocl/         *)
(* read_write.c: ecryptfs_write (sequential), ecryptfs_write2 (batched)    *)
(* and ecryptfs_read2, over a page cache, a lower file and a size record.  *)
(* A call is executed step by step by its calling thread; the suspension   *)
(* points are the page acquisition and the backend / crypto calls.         *)
(***************************************************************************)
EXTENDS Integers, Sequences, FiniteSets, TLC

\* ---------------------------------------------------------------- bounds
\* The page size of the model (the kernel's is 4096).
PAGE_SIZE == 2
\* Pages of the modelled window of the file.
NumPages == 3
\* Calls one thread makes in a behaviour of Spec.
MaxCalls == 2
\* Failures the collaborators may report in one behaviour.
MaxFaults == 1
\* Byte values: 0 is the zero byte, the largest is memory that is not the page's.
NBytes == 5

MaxPos == NumPages * PAGE_SIZE
MaxLen == PAGE_SIZE + 1
Pages == 0 .. (NumPages - 1)
Positions == 0 .. (MaxPos - 1)
Bytes == 0 .. (NBytes - 1)
Junk == NBytes - 1
Threads == {1, 2}
Modes == {"plaintext", "encrypted", "view"}

\* ---------------------------------------------------------------- helpers
Min(a, b) == IF a < b THEN a ELSE b
Max(a, b) == IF a > b THEN a ELSE b

\* The caller's buffer: byte k of the data of a call with seed d (never zero).
Data(d, k) == 1 + ((d + k) % (NBytes - 2))

\* The cipher, bytewise: what the Crypto Engine stores for a plaintext byte.
Enc(b) == (b + 1) % NBytes
Dec(c) == (c + NBytes - 1) % NBytes

\* pos >> PAGE_SHIFT and pos & ~PAGE_MASK
PageIdx(pos) == pos \div PAGE_SIZE
OffsetInPage(pos) == pos % PAGE_SIZE

ZeroPage == [k \in 1 .. PAGE_SIZE |-> 0]
NoPage == << >>
NoCounts == [p \in Pages |-> 0]

VARIABLES
    mode,        \* crypt_stat->flags of the inode, fixed at open
    i_size,      \* the inode's logical size (i_size_read / i_size_write)
    meta_size,   \* the size record persisted in the lower file's metadata
    cache,       \* the eCryptfs page cache: page index -> contents or NoPage
    lower,       \* the lower file, byte by byte
    locked,      \* page index -> the thread holding the page lock, or 0
    signal,      \* thread -> fatal_signal_pending(current)
    accessed,    \* file_accessed() calls so far
    calls,       \* thread -> calls it may still start
    faults,      \* failures the collaborators may still report
    fr           \* thread -> the frame of its current (or last) call

vars == << mode, i_size, meta_size, cache, lower, locked, signal, accessed,
           calls, faults, fr >>

Encrypted == mode # "plaintext"

\* Outcomes of a collaborator call that can fail.
Outcomes == IF faults > 0 THEN {TRUE, FALSE} ELSE {TRUE}
Spend(ok) == IF ok THEN faults ELSE faults - 1

\* The lower file's contents of position p as the page-fill primitive delivers
\* them (ecryptfs_readpage): decrypted for an encrypted file.
LowerByte(p) == IF mode = "encrypted" THEN Dec(lower[p]) ELSE lower[p]
LowerPage(idx) == [k \in 1 .. PAGE_SIZE |-> LowerByte(idx * PAGE_SIZE + k - 1)]

\* The logical file: a cached page's contents, the lower file's otherwise.
FileByte(p) ==
    IF cache[PageIdx(p)] # NoPage
    THEN cache[PageIdx(p)][OffsetInPage(p) + 1]
    ELSE LowerByte(p)
FileView == [p \in Positions |-> FileByte(p)]

\* The frame of a call: the locals of the source under their names, and what
\* the call has done so far (got, put, unlocked: per page, the acquisitions,
\* releases and unlocks; commits: the pages it persisted; crypt_rc: the
\* status of the group encryption; old, old_lower: the logical file and the
\* lower file at entry; wrote: for a read, the caller's data when the
\* thread's previous call wrote exactly the range now read).
IdleFrame ==
    [op |-> "none", pc |-> "idle", offset |-> 0, size |-> 0, seed |-> 0,
     length |-> 0, crypt_rc |-> "0", wrote |-> << >>, old_lower |-> << >>,
     ecryptfs_file_size |-> 0, pos |-> 0, data_offset |-> 0, rc |-> "0",
     num_bytes |-> 0, pgs |-> << >>, nrpgs |-> 0, i |-> 0, page_idx |-> 0,
     written |-> 0, out |-> << >>, got |-> NoCounts, put |-> NoCounts,
     unlocked |-> NoCounts, overrun |-> FALSE, sig_seen |-> FALSE,
     commits |-> << >>, old |-> << >>]

Init ==
    /\ mode \in Modes
    /\ i_size = 0
    /\ meta_size = 0
    /\ cache = [p \in Pages |-> NoPage]
    /\ lower = [p \in Positions |-> IF mode = "plaintext" THEN 0 ELSE Enc(0)]
    /\ locked = [p \in Pages |-> 0]
    /\ signal = [t \in Threads |-> FALSE]
    /\ accessed = 0
    /\ faults = MaxFaults
    /\ fr = [t \in Threads |-> IdleFrame]
    /\ calls = [t \in Threads |-> IF t = 1 THEN MaxCalls ELSE 0]

Returned(t) == fr[t].pc = "done"

\* The caller's data of frame f when f is a returned, successful
\* ecryptfs_write of [offset, offset + length), length > 0, to a file that
\* was empty; << >> otherwise.
WrittenBefore(f, offset, length) ==
    IF /\ f.op = "write" /\ f.pc = "done" /\ f.rc = "0"
       /\ f.ecryptfs_file_size = 0
       /\ f.offset = offset /\ f.length = length /\ length > 0
    THEN [k \in 1 .. length |-> Data(f.seed, k - 1)]
    ELSE << >>

\* Lines 124-127, 252-255: where the walk starts.
StartPos(offset, ecryptfs_file_size) ==
    IF offset > ecryptfs_file_size THEN ecryptfs_file_size ELSE offset

\* The loop test with <= for <.
WalkContinues_Inclusive(pos, offset, size) == pos <= offset + size

\* Lines 128, 256: the loop test of the write walks.
WalkContinues(pos, offset, size) == pos < offset + size

\* The buffer a thread passes: each call of each thread has its own contents.
SeedOf(t) == t + calls[t] - 1
CanCall(t) == fr[t].pc \in {"idle", "done"} /\ calls[t] > 0 /\ ~signal[t]

\* ------------------------------------------------------- ecryptfs_write
\* Lines 112-127: read the size once, start at min(offset, size).
ecryptfs_write_enter(t, offset, size, seed) ==
    /\ CanCall(t)
    /\ calls' = [calls EXCEPT ![t] = @ - 1]
    /\ fr' = [fr EXCEPT ![t] =
                [IdleFrame EXCEPT
                    !.op = "write", !.pc = "w_loop", !.offset = offset,
                    !.size = size, !.seed = seed, !.length = size,
                    !.ecryptfs_file_size = i_size,
                    !.pos = StartPos(offset, i_size),
                    !.old = FileView, !.old_lower = lower]]
    /\ UNCHANGED << mode, i_size, meta_size, cache, lower, locked, signal,
                    accessed, faults >>

\* The step length without the cap of lines 141-147 on a hole-filling step.
StepLen_NoZeroCap(pos, offset, size) ==
    Min(PAGE_SIZE - OffsetInPage(pos), (offset + size) - pos)

\* The step length without the cap of lines 131, 259 at the end of the page.
StepLen_NoPageCap(pos, offset, size) ==
    IF pos < offset THEN offset - pos ELSE (offset + size) - pos

\* The step length of lines 131-147, 259-270.
StepLen(pos, offset, size) ==
    LET in_page == PAGE_SIZE - OffsetInPage(pos)
        remaining == Min(in_page, (offset + size) - pos)
    IN  IF pos < offset THEN Min(remaining, offset - pos) ELSE remaining

\* The cancellation leaves the call as an error does (goto out).
AfterSignal_GotoOut == "done"

\* Line 136: break leaves the loop for the size update of line 200.
AfterSignal == "w_size"

\* Lines 128-147: the loop test, the cancellation check, the step length.
ecryptfs_write_loop(t) ==
    /\ fr[t].pc = "w_loop"
    /\ LET f == fr[t] IN
       fr' = [fr EXCEPT ![t] =
                IF WalkContinues(f.pos, f.offset, f.size)
                THEN IF signal[t]
                     THEN [f EXCEPT !.rc = "EINTR", !.pc = AfterSignal,
                                    !.sig_seen = TRUE]
                     ELSE [f EXCEPT !.pc = "w_get",
                                    !.num_bytes = StepLen(f.pos, f.offset, f.size)]
                ELSE [f EXCEPT !.pc = "w_size"]]
    /\ UNCHANGED << mode, i_size, meta_size, cache, lower, locked, signal,
                    accessed, calls, faults >>

\* ecryptfs_get_locked_page: the page of the cache, filled from the lower
\* file when it is not cached yet, locked and referenced; or an error.
GetLockedPage(t, idx, ok, fill) ==
    IF ok
    THEN /\ locked[idx] = 0
         /\ locked' = [locked EXCEPT ![idx] = t]
         /\ cache' = IF cache[idx] = NoPage
                     THEN [cache EXCEPT ![idx] = fill]
                     ELSE cache
    ELSE UNCHANGED << locked, cache >>

\* Lines 148-157.
ecryptfs_write_get(t) ==
    /\ fr[t].pc = "w_get"
    /\ \E ok \in Outcomes :
         LET f == fr[t]
             idx == PageIdx(f.pos)
         IN  /\ GetLockedPage(t, idx, ok, LowerPage(idx))
             /\ faults' = Spend(ok)
             /\ fr' = [fr EXCEPT ![t] =
                         IF ok
                         THEN [f EXCEPT !.pc = "w_zero",
                                        !.got = [@ EXCEPT ![idx] = @ + 1]]
                         ELSE [f EXCEPT !.pc = "done", !.rc = "EPAGE"]]
    /\ UNCHANGED << mode, i_size, meta_size, lower, signal, accessed, calls >>

\* memset(virt + start, 0, PAGE_SIZE - start)
ZeroFrom(page, start) ==
    [k \in 1 .. PAGE_SIZE |-> IF k > start THEN 0 ELSE page[k]]

\* memcpy(virt + start, data + data_offset, n)
CopyIn(page, start, seed, data_offset, n) ==
    [k \in 1 .. PAGE_SIZE |->
        IF k > start /\ k <= start + n
        THEN Data(seed, data_offset + (k - 1 - start))
        ELSE page[k]]

\* Whether the step zero-fills the rest of the page (lines 166, 290).
ZeroFills(pos, offset) == pos < offset \/ OffsetInPage(pos) = 0

\* Lines 158-172: the zero fill, under the page lock.
ecryptfs_write_zero(t) ==
    /\ fr[t].pc = "w_zero"
    /\ LET f == fr[t]
           idx == PageIdx(f.pos)
       IN  /\ cache' = IF ZeroFills(f.pos, f.offset)
                       THEN [cache EXCEPT ![idx] = ZeroFrom(@, OffsetInPage(f.pos))]
                       ELSE cache
           /\ fr' = [fr EXCEPT ![t].pc = "w_copy"]
    /\ UNCHANGED << mode, i_size, meta_size, lower, locked, signal, accessed,
                    calls, faults >>

\* Lines 174-184: the data copy, SetPageUptodate, unlock_page.
ecryptfs_write_copy(t) ==
    /\ fr[t].pc = "w_copy"
    /\ LET f == fr[t]
           idx == PageIdx(f.pos)
           is_data == f.pos >= f.offset
       IN  /\ cache' = IF is_data
                       THEN [cache EXCEPT ![idx] =
                               CopyIn(@, OffsetInPage(f.pos), f.seed,
                                      f.data_offset, f.num_bytes)]
                       ELSE cache
           /\ locked' = [locked EXCEPT ![idx] = 0]
           /\ fr' = [fr EXCEPT ![t] =
                       [f EXCEPT !.pc = "w_commit",
                                 !.data_offset = IF is_data THEN @ + f.num_bytes ELSE @,
                                 !.unlocked = [@ EXCEPT ![idx] = @ + 1]]]
    /\ UNCHANGED << mode, i_size, meta_size, lower, signal, accessed, calls,
                    faults >>

\* ecryptfs_encrypt_page: the whole page, encrypted, to its place in the
\* lower file.
EncryptPage(low, idx) ==
    [p \in Positions |->
        IF PageIdx(p) = idx THEN Enc(cache[idx][OffsetInPage(p) + 1]) ELSE low[p]]

\* ecryptfs_write_lower_page_segment (lines 70-86): size bytes of the mapped
\* page from offset_in_page on, to the lower file at the page's offset plus
\* offset_in_page; bytes past the end of the page are whatever memory follows.
ecryptfs_write_lower_page_segment(low, idx, offset_in_page, size) ==
    LET offset == idx * PAGE_SIZE + offset_in_page IN
    [p \in Positions |->
        IF p >= offset /\ p < offset + size
        THEN IF offset_in_page + (p - offset) < PAGE_SIZE
             THEN cache[idx][offset_in_page + (p - offset) + 1]
             ELSE Junk
        ELSE low[p]]

\* put_page only after a commit that succeeded.
PutAfterCommit_SkipOnError(put, idx, ok) ==
    IF ok THEN [put EXCEPT ![idx] = @ + 1] ELSE put

\* Line 192: put_page, whatever the commit returned.
PutAfterCommit(put, idx, ok) == [put EXCEPT ![idx] = @ + 1]

\* Lines 185-198: commit the page, release it, stop on an error or advance.
ecryptfs_write_commit(t) ==
    /\ fr[t].pc = "w_commit"
    /\ \E ok \in Outcomes :
         LET f == fr[t]
             idx == PageIdx(f.pos)
             start == OffsetInPage(f.pos)
         IN  /\ faults' = Spend(ok)
             /\ lower' = IF ~ok THEN lower
                         ELSE IF Encrypted THEN EncryptPage(lower, idx)
                         ELSE ecryptfs_write_lower_page_segment(
                                  lower, idx, start, f.data_offset)
             /\ fr' = [fr EXCEPT ![t] =
                         IF ok
                         THEN [f EXCEPT !.pc = "w_loop",
                                        !.put = PutAfterCommit(@, idx, ok),
                                        !.pos = @ + f.num_bytes,
                                        !.commits = Append(@, idx)]
                         ELSE [f EXCEPT !.pc = "done",
                                        !.put = PutAfterCommit(@, idx, ok),
                                        !.rc = IF Encrypted THEN "ECRYPTO" ELSE "EIO"]]
    /\ UNCHANGED << mode, i_size, meta_size, cache, locked, signal, accessed,
                    calls >>

\* The size is written whatever the walk reached.
SizeGrows_Always(end, ecryptfs_file_size) == TRUE

\* Lines 200, 335: the size is written only when the end reached lies beyond
\* the size read at entry.
SizeGrows(end, ecryptfs_file_size) == end > ecryptfs_file_size

\* Lines 200-201: the size update, against the size read at entry.
ecryptfs_write_size(t) ==
    /\ fr[t].pc = "w_size"
    /\ LET f == fr[t] IN
       IF SizeGrows(f.pos, f.ecryptfs_file_size)
       THEN /\ i_size' = f.pos
            /\ fr' = [fr EXCEPT ![t].pc = IF Encrypted THEN "w_meta" ELSE "done"]
       ELSE /\ i_size' = i_size
            /\ fr' = [fr EXCEPT ![t].pc = "done"]
    /\ UNCHANGED << mode, meta_size, cache, lower, locked, signal, accessed,
                    calls, faults >>

\* The status of the size persist is dropped.
MetaStatus_Dropped(rc, ok) == rc

\* Lines 207-212: rc2 of the size persist becomes rc when the walk left rc 0.
MetaStatus(rc, ok) == IF ~ok /\ rc = "0" THEN "EMETA" ELSE rc

\* Lines 202-215: ecryptfs_write_inode_size_to_metadata; its error is the
\* call's only when the walk had none.
ecryptfs_write_meta(t) ==
    /\ fr[t].pc = "w_meta"
    /\ \E ok \in Outcomes :
         /\ faults' = Spend(ok)
         /\ meta_size' = IF ok THEN i_size ELSE meta_size
         /\ fr' = [fr EXCEPT ![t] =
                     [@ EXCEPT !.pc = "done",
                               !.rc = MetaStatus(@, ok)]]
    /\ UNCHANGED << mode, i_size, cache, lower, locked, signal, accessed,
                    calls >>

\* ------------------------------------------------------ ecryptfs_write2
\* size / PAGE_SIZE, plus one when size is not a multiple of the page size.
NrPgs(size) == (size \div PAGE_SIZE) + (IF size % PAGE_SIZE # 0 THEN 1 ELSE 0)

\* What a page holds when the cache allocates it without filling it.
FreshPages == {ZeroPage, [k \in 1 .. PAGE_SIZE |-> Junk]}

\* Lines 228-255: the size read, the batch array of nrpgs entries (kmalloc
\* of no bytes does not fail), the start.
ecryptfs_write2_enter(t, offset, size, seed) ==
    /\ CanCall(t)
    /\ calls' = [calls EXCEPT ![t] = @ - 1]
    /\ \E ok \in (IF NrPgs(size) = 0 THEN {TRUE} ELSE Outcomes) :
         /\ faults' = Spend(ok)
         /\ fr' = [fr EXCEPT ![t] =
                     [IdleFrame EXCEPT
                         !.op = "write2", !.offset = offset, !.size = size,
                         !.seed = seed, !.length = size,
                         !.ecryptfs_file_size = i_size,
                         !.nrpgs = NrPgs(size),
                         !.pos = StartPos(offset, i_size),
                         !.old = FileView, !.old_lower = lower,
                         !.pc = IF ok THEN "w2_loop" ELSE "done",
                         !.rc = IF ok THEN "0" ELSE "ENOMEM"]]
    /\ UNCHANGED << mode, i_size, meta_size, cache, lower, locked, signal,
                    accessed >>

\* Lines 256-270: the loop test and the step length; no signal is read.
ecryptfs_write2_loop(t) ==
    /\ fr[t].pc = "w2_loop"
    /\ LET f == fr[t] IN
       fr' = [fr EXCEPT ![t] =
                IF WalkContinues(f.pos, f.offset, f.size)
                THEN [f EXCEPT !.pc = "w2_get",
                               !.num_bytes = StepLen(f.pos, f.offset, f.size)]
                ELSE [f EXCEPT !.pc = "w2_crypt"]]
    /\ UNCHANGED << mode, i_size, meta_size, cache, lower, locked, signal,
                    accessed, calls, faults >>

\* Lines 273-281: grab_cache_page_write_begin finds or allocates the page,
\* locked and referenced, without filling it; a result that IS_ERR
\* recognises ends the call at out.
ecryptfs_write2_get(t) ==
    /\ fr[t].pc = "w2_get"
    /\ \E ok \in Outcomes, fresh \in FreshPages :
         LET f == fr[t]
             idx == PageIdx(f.pos)
         IN  /\ (cache[idx] # NoPage \/ ~ok) => fresh = ZeroPage
             /\ GetLockedPage(t, idx, ok, fresh)
             /\ faults' = Spend(ok)
             /\ fr' = [fr EXCEPT ![t] =
                         IF ok
                         THEN [f EXCEPT !.pc = "w2_zero",
                                        !.got = [@ EXCEPT ![idx] = @ + 1]]
                         ELSE [f EXCEPT !.pc = "done", !.rc = "EPAGE"]]
    /\ UNCHANGED << mode, i_size, meta_size, lower, signal, accessed, calls >>

\* Lines 282-296.
ecryptfs_write2_zero(t) ==
    /\ fr[t].pc = "w2_zero"
    /\ LET f == fr[t]
           idx == PageIdx(f.pos)
       IN  /\ cache' = IF ZeroFills(f.pos, f.offset)
                       THEN [cache EXCEPT ![idx] = ZeroFrom(@, OffsetInPage(f.pos))]
                       ELSE cache
           /\ fr' = [fr EXCEPT ![t].pc = "w2_copy"]
    /\ UNCHANGED << mode, i_size, meta_size, lower, locked, signal, accessed,
                    calls, faults >>

\* Lines 298-308.
ecryptfs_write2_copy(t) ==
    /\ fr[t].pc = "w2_copy"
    /\ LET f == fr[t]
           idx == PageIdx(f.pos)
           is_data == f.pos >= f.offset
       IN  /\ cache' = IF is_data
                       THEN [cache EXCEPT ![idx] =
                               CopyIn(@, OffsetInPage(f.pos), f.seed,
                                      f.data_offset, f.num_bytes)]
                       ELSE cache
           /\ locked' = [locked EXCEPT ![idx] = 0]
           /\ fr' = [fr EXCEPT ![t] =
                       [f EXCEPT !.pc = "w2_commit",
                                 !.data_offset = IF is_data THEN @ + f.num_bytes ELSE @,
                                 !.unlocked = [@ EXCEPT ![idx] = @ + 1]]]
    /\ UNCHANGED << mode, i_size, meta_size, lower, signal, accessed, calls,
                    faults >>

\* pgs[i++] = page on an array of nrpgs entries: a store past the last entry
\* lands outside the array (overrun) and no later read of pgs finds it.
BatchAppend(f, idx) ==
    [f EXCEPT !.pgs = IF f.i < f.nrpgs THEN Append(@, idx) ELSE @,
              !.overrun = @ \/ f.i >= f.nrpgs,
              !.i = @ + 1]

\* Lines 309-325: an encrypted file's page joins the batch and stays
\* referenced; a plaintext file's page is written and released.
ecryptfs_write2_commit(t) ==
    /\ fr[t].pc = "w2_commit"
    /\ \E ok \in (IF Encrypted THEN {TRUE} ELSE Outcomes) :
         LET f == fr[t]
             idx == PageIdx(f.pos)
             start == OffsetInPage(f.pos)
         IN  /\ faults' = Spend(ok)
             /\ lower' = IF Encrypted \/ ~ok THEN lower
                         ELSE ecryptfs_write_lower_page_segment(
                                  lower, idx, start, f.data_offset)
             /\ fr' = [fr EXCEPT ![t] =
                         IF Encrypted
                         THEN [BatchAppend(f, idx) EXCEPT
                                        !.pc = "w2_loop",
                                        !.pos = @ + f.num_bytes]
                         ELSE IF ok
                         THEN [f EXCEPT !.pc = "w2_loop",
                                        !.put = [@ EXCEPT ![idx] = @ + 1],
                                        !.pos = @ + f.num_bytes,
                                        !.commits = Append(@, idx)]
                         ELSE [f EXCEPT !.pc = "done",
                                        !.put = [@ EXCEPT ![idx] = @ + 1],
                                        !.rc = "EIO"]]
    /\ UNCHANGED << mode, i_size, meta_size, cache, locked, signal, accessed,
                    calls >>

\* The number of entries of pgs that name page p.
RECURSIVE CountIn(_, _)
CountIn(pgs, p) ==
    IF pgs = << >> THEN 0
    ELSE (IF Head(pgs) = p THEN 1 ELSE 0) + CountIn(Tail(pgs), p)

\* ecryptfs_encrypt_pages2(pgs, nrpgs): every page of the batch, encrypted,
\* to its place in the lower file.
RECURSIVE EncryptPages(_, _)
EncryptPages(low, pgs) ==
    IF pgs = << >> THEN low
    ELSE EncryptPages(EncryptPage(low, Head(pgs)), Tail(pgs))

\* put_page(pgs[i]) for i < nrpgs (lines 330-331).
PutBatch(put, pgs) == [p \in Pages |-> put[p] + CountIn(pgs, p)]

\* A failed group encryption ends the call before the size update.
AfterCrypt_StopOnError(ok) == IF ok THEN "w2_size" ELSE "done"

\* Lines 329-335: whatever ecryptfs_encrypt_pages2 returned, control reaches
\* the size test.
AfterCrypt(ok) == "w2_size"

\* Lines 328-333: the one group encryption, then the release of the first
\* nrpgs entries of the batch.
ecryptfs_write2_crypt(t) ==
    /\ fr[t].pc = "w2_crypt"
    /\ \E ok \in (IF Encrypted THEN Outcomes ELSE {TRUE}) :
         LET f == fr[t] IN
         /\ faults' = Spend(ok)
         /\ lower' = IF Encrypted /\ ok THEN EncryptPages(lower, f.pgs) ELSE lower
         /\ fr' = [fr EXCEPT ![t] =
                     IF Encrypted
                     THEN [f EXCEPT !.pc = AfterCrypt(ok),
                                    !.rc = IF ok THEN "0" ELSE "ECRYPTO",
                                    !.crypt_rc = IF ok THEN "0" ELSE "ECRYPTO",
                                    !.i = f.nrpgs,
                                    !.put = PutBatch(@, f.pgs),
                                    !.commits = IF ok THEN f.pgs ELSE @]
                     ELSE [f EXCEPT !.pc = "w2_size"]]
    /\ UNCHANGED << mode, i_size, meta_size, cache, locked, signal, accessed,
                    calls >>

\* Lines 335-336: the size becomes offset + size.
ecryptfs_write2_size(t) ==
    /\ fr[t].pc = "w2_size"
    /\ LET f == fr[t] IN
       IF SizeGrows(f.offset + f.size, f.ecryptfs_file_size)
       THEN /\ i_size' = f.offset + f.size
            /\ fr' = [fr EXCEPT ![t].pc = IF Encrypted THEN "w2_meta" ELSE "done"]
       ELSE /\ i_size' = i_size
            /\ fr' = [fr EXCEPT ![t].pc = "done"]
    /\ UNCHANGED << mode, meta_size, cache, lower, locked, signal, accessed,
                    calls, faults >>

\* Lines 337-346: rc is assigned the result of the size persist.
ecryptfs_write2_meta(t) ==
    /\ fr[t].pc = "w2_meta"
    /\ \E ok \in Outcomes :
         /\ faults' = Spend(ok)
         /\ meta_size' = IF ok THEN i_size ELSE meta_size
         /\ fr' = [fr EXCEPT ![t] =
                     [@ EXCEPT !.pc = "done",
                               !.rc = IF ok THEN "0" ELSE "EMETA"]]
    /\ UNCHANGED << mode, i_size, cache, lower, locked, signal, accessed,
                    calls >>

\* ------------------------------------------------------- ecryptfs_read2
\* no decryption needed (lines 451-455)
nodec == mode # "encrypted"

\* (size + PAGE_SIZE - 1) >> PAGE_SHIFT
NrPages(size) == (size + PAGE_SIZE - 1) \div PAGE_SIZE

\* Lines 435-462: the size read, the clamp of size, the page count, the
\* batch array (allocated only when decryption is needed).
ecryptfs_read2_enter(t, offset, size) ==
    /\ CanCall(t)
    /\ calls' = [calls EXCEPT ![t] = @ - 1]
    /\ \E ok \in (IF nodec \/ NrPages(Min(size, i_size)) = 0
                  THEN {TRUE} ELSE Outcomes) :
         LET clamped == IF size > i_size THEN i_size ELSE size IN
         /\ faults' = Spend(ok)
         /\ fr' = [fr EXCEPT ![t] =
                     [IdleFrame EXCEPT
                         !.op = "read2", !.offset = offset, !.size = clamped,
                         !.length = size,
                         !.ecryptfs_file_size = i_size,
                         !.nrpgs = NrPages(clamped),
                         !.old = FileView, !.old_lower = lower,
                         !.wrote = WrittenBefore(fr[t], offset, size),
                         !.pc = IF ~ok THEN "done"
                                ELSE IF NrPages(clamped) = 0 THEN "r_decrypt"
                                ELSE "r_grab",
                         !.rc = IF ok THEN "0" ELSE "EFAULT"]]
    /\ UNCHANGED << mode, i_size, meta_size, cache, lower, locked, signal,
                    accessed >>

\* Lines 464-474: grab_cache_page(mapping, page_idx), page_idx counted from
\* 0; readpage fills and unlocks the page when no decryption is needed; the
\* store to pgs[page_idx] writes through a null pointer when pgs was not
\* allocated.
ecryptfs_read2_grab(t) ==
    /\ fr[t].pc = "r_grab"
    /\ \E ok \in Outcomes, fresh \in FreshPages :
         LET f == fr[t]
             idx == f.page_idx
         IN  /\ (cache[idx] # NoPage \/ ~ok \/ nodec) => fresh = ZeroPage
             /\ faults' = Spend(ok)
             /\ IF ~ok
                THEN /\ UNCHANGED << locked, cache >>
                     /\ fr' = [fr EXCEPT ![t].pc = "r_out"]
                ELSE IF nodec
                THEN /\ locked[idx] = 0
                     /\ UNCHANGED locked
                     /\ cache' = [cache EXCEPT ![idx] = LowerPage(idx)]
                     /\ fr' = [fr EXCEPT ![t] =
                                 [f EXCEPT !.pc = "oops",
                                           !.got = [@ EXCEPT ![idx] = @ + 1],
                                           !.unlocked = [@ EXCEPT ![idx] = @ + 1]]]
                ELSE /\ GetLockedPage(t, idx, TRUE, fresh)
                     /\ fr' = [fr EXCEPT ![t] =
                                 [f EXCEPT !.pc = IF idx + 1 < f.nrpgs
                                                  THEN "r_grab" ELSE "r_decrypt",
                                           !.got = [@ EXCEPT ![idx] = @ + 1],
                                           !.pgs = Append(@, idx),
                                           !.page_idx = idx + 1]]
    /\ UNCHANGED << mode, i_size, meta_size, lower, signal, accessed, calls >>

\* ecryptfs_decrypt_pages(pgs, nr_pages): every page of the batch is filled
\* with the decrypted contents of its place in the lower file.
RECURSIVE DecryptPages(_, _)
DecryptPages(c, pgs) ==
    IF pgs = << >> THEN c
    ELSE DecryptPages([c EXCEPT ![Head(pgs)] = LowerPage(Head(pgs))], Tail(pgs))

\* Lines 476-494: the group decryption, then the end-of-file test.
ecryptfs_read2_decrypt(t) ==
    /\ fr[t].pc = "r_decrypt"
    /\ \E ok \in (IF nodec THEN {TRUE} ELSE Outcomes) :
         LET f == fr[t] IN
         /\ faults' = Spend(ok)
         /\ cache' = IF ~nodec /\ ok THEN DecryptPages(cache, f.pgs) ELSE cache
         /\ fr' = [fr EXCEPT ![t] =
                     [f EXCEPT !.rc = IF nodec THEN @
                                      ELSE IF ok THEN "0" ELSE "ECRYPTO",
                               !.pc = IF f.offset >= f.ecryptfs_file_size
                                      THEN "r_out" ELSE "r_copy",
                               !.pos = f.offset,
                               !.page_idx = 0]]
    /\ UNCHANGED << mode, i_size, meta_size, lower, locked, signal, accessed,
                    calls >>

\* The bytes of a page from start on, n of them.
PageSlice(page, start, n) == SubSeq(page, start + 1, start + n)

\* What reading pgs[page_idx] past the last entry of pgs can do.
PastBatch == {"oops", "is_err", "junk"}

\* Lines 496-535: one copy step from pgs[page_idx], page_idx counted from 0;
\* the page is unlocked and released after the copy.
ecryptfs_read2_copy(t) ==
    /\ fr[t].pc = "r_copy"
    /\ LET f == fr[t]
           start == OffsetInPage(f.pos)
           n == Min(PAGE_SIZE - start, (f.offset + f.size) - f.pos)
       IN
       IF f.pos >= f.offset + f.size
       THEN /\ fr' = [fr EXCEPT ![t].pc = "r_out"]
            /\ UNCHANGED locked
       ELSE IF f.page_idx < Len(f.pgs)
       THEN LET idx == f.pgs[f.page_idx + 1] IN
            /\ locked' = [locked EXCEPT ![idx] = 0]
            /\ fr' = [fr EXCEPT ![t] =
                        [f EXCEPT !.out = @ \o PageSlice(cache[idx], start, n),
                                  !.pos = @ + n,
                                  !.written = @ + n,
                                  !.data_offset = @ + n,
                                  !.page_idx = @ + 1,
                                  !.unlocked = [@ EXCEPT ![idx] = @ + 1],
                                  !.put = [@ EXCEPT ![idx] = @ + 1]]]
       ELSE \E o \in PastBatch :
            /\ UNCHANGED locked
            /\ fr' = [fr EXCEPT ![t] =
                        IF o = "oops" THEN [f EXCEPT !.pc = "oops", !.overrun = TRUE]
                        ELSE IF o = "is_err"
                        THEN [f EXCEPT !.pc = "r_out", !.overrun = TRUE]
                        ELSE [f EXCEPT !.out = @ \o [k \in 1 .. n |-> Junk],
                                       !.pos = @ + n,
                                       !.written = @ + n,
                                       !.data_offset = @ + n,
                                       !.page_idx = @ + 1,
                                       !.overrun = TRUE]]
    /\ UNCHANGED << mode, i_size, meta_size, cache, lower, signal, accessed,
                    calls, faults >>

\* Lines 536-538: file_accessed, return written.
ecryptfs_read2_out(t) ==
    /\ fr[t].pc = "r_out"
    /\ accessed' = accessed + 1
    /\ fr' = [fr EXCEPT ![t].pc = "done"]
    /\ UNCHANGED << mode, i_size, meta_size, cache, lower, locked, signal,
                    calls, faults >>

\* A fatal signal arrives for a thread inside a call. The walks read the
\* signal at the top of an iteration only, so that is where it is delivered.
RaiseSignal(t) ==
    /\ fr[t].pc \in {"w_loop", "w2_loop"}
    /\ ~signal[t]
    /\ signal' = [signal EXCEPT ![t] = TRUE]
    /\ UNCHANGED << mode, i_size, meta_size, cache, lower, locked, accessed,
                    calls, faults, fr >>

Requests == {<<o, s>> \in Positions \X (0 .. MaxLen) : o + s <= MaxPos}

Next ==
    \E t \in Threads :
        \/ \E r \in Requests : ecryptfs_write_enter(t, r[1], r[2], SeedOf(t))
        \/ ecryptfs_write_loop(t)
        \/ ecryptfs_write_get(t)
        \/ ecryptfs_write_zero(t)
        \/ ecryptfs_write_copy(t)
        \/ ecryptfs_write_commit(t)
        \/ ecryptfs_write_size(t)
        \/ ecryptfs_write_meta(t)
        \/ \E r \in Requests : ecryptfs_write2_enter(t, r[1], r[2], SeedOf(t))
        \/ ecryptfs_write2_loop(t)
        \/ ecryptfs_write2_get(t)
        \/ ecryptfs_write2_zero(t)
        \/ ecryptfs_write2_copy(t)
        \/ ecryptfs_write2_commit(t)
        \/ ecryptfs_write2_crypt(t)
        \/ ecryptfs_write2_size(t)
        \/ ecryptfs_write2_meta(t)
        \/ \E r \in Requests : ecryptfs_read2_enter(t, r[1], r[2])
        \/ ecryptfs_read2_grab(t)
        \/ ecryptfs_read2_decrypt(t)
        \/ ecryptfs_read2_copy(t)
        \/ ecryptfs_read2_out(t)
        \/ RaiseSignal(t)

Spec == Init /\ [][Next]_vars

\* Two threads, each making one call of ecryptfs_write of at most a page of
\* data on the same file; no collaborator fails.
InitConc ==
    /\ mode \in {"plaintext", "encrypted"}
    /\ i_size = 0
    /\ meta_size = 0
    /\ cache = [p \in Pages |-> NoPage]
    /\ lower = [p \in Positions |-> IF mode = "plaintext" THEN 0 ELSE Enc(0)]
    /\ locked = [p \in Pages |-> 0]
    /\ signal = [t \in Threads |-> FALSE]
    /\ accessed = 0
    /\ faults = 0
    /\ fr = [t \in Threads |-> IdleFrame]
    /\ calls = [t \in Threads |-> 1]

ConcRequests == {r \in Requests : r[2] >= 1 /\ r[2] <= PAGE_SIZE}

NextConc ==
    \E t \in Threads :
        \/ \E r \in ConcRequests : ecryptfs_write_enter(t, r[1], r[2], SeedOf(t))
        \/ ecryptfs_write_loop(t)
        \/ ecryptfs_write_get(t)
        \/ ecryptfs_write_zero(t)
        \/ ecryptfs_write_copy(t)
        \/ ecryptfs_write_commit(t)
        \/ ecryptfs_write_size(t)
        \/ ecryptfs_write_meta(t)

SpecConc == InitConc /\ [][NextConc]_vars

\* ------------------------------------------------------------ properties
IsWrite(f) == f.op \in {"write", "write2"}
NoFault == faults = MaxFaults
DataAt(f, p) == Data(f.seed, p - f.offset)

\* C1: on an initially empty file, a successful write(data, offset, length)
\* with length > 0 followed by read(offset, length) returns exactly length
\* bytes, and they are the caller's data.
C1_WriteThenReadReturnsData ==
    \A t \in Threads :
        (Returned(t) /\ fr[t].op = "read2" /\ fr[t].wrote # << >> /\ NoFault)
            => (fr[t].written = fr[t].length /\ fr[t].out = fr[t].wrote)

\* C2: a successful sequential write of length > 0 at an offset beyond the
\* size at entry leaves the size at offset + length, zeros in
\* [old size, offset), the caller's data in [offset, offset + length) and
\* every byte below the old size as it was; on an encrypted file the lower
\* file decrypts to the same bytes from the old size on.
C2_WriteBeyondSizeFillsHole ==
    \A t \in Threads :
        LET f == fr[t] IN
        (Returned(t) /\ f.op = "write" /\ f.rc = "0" /\ f.length > 0
                     /\ f.offset > f.ecryptfs_file_size)
            => /\ i_size = f.offset + f.length
               /\ \A p \in Positions :
                    /\ p < f.ecryptfs_file_size => FileByte(p) = f.old[p]
                    /\ (p >= f.ecryptfs_file_size /\ p < f.offset) => FileByte(p) = 0
                    /\ (p >= f.offset /\ p < f.offset + f.length)
                          => FileByte(p) = DataAt(f, p)
                    /\ (mode = "encrypted" /\ p >= f.ecryptfs_file_size
                                           /\ p < f.offset + f.length)
                          => LowerByte(p) = FileByte(p)

C2_Witness ==
    \E t \in Threads :
        /\ Returned(t) /\ fr[t].op = "write" /\ fr[t].rc = "0"
        /\ fr[t].length > 0 /\ fr[t].ecryptfs_file_size > 0
        /\ fr[t].offset > fr[t].ecryptfs_file_size + 1

\* C3 as stated: a write of length 0 is a no-op that returns 0 at every
\* offset: no page acquired, nothing committed, size and bytes unchanged.
C3_ZeroLengthIsNoOp ==
    \A t \in Threads :
        LET f == fr[t] IN
        (Returned(t) /\ IsWrite(f) /\ f.length = 0 /\ NoFault)
            => /\ f.rc = "0"
               /\ f.got = NoCounts
               /\ f.commits = << >>
               /\ i_size = f.ecryptfs_file_size
               /\ FileView = f.old

\* C3 amended: a write of length 0 at an offset at or below the size at
\* entry acquires no page, commits nothing and leaves the size, the logical
\* file and the lower file unchanged, at every step of the call; it returns
\* 0, or in the batched variant on an encrypted file the status of the group
\* encryption of the empty batch.
C3_ZeroLengthWithinSizeIsNoOp ==
    \A t \in Threads :
        LET f == fr[t] IN
        (IsWrite(f) /\ f.length = 0 /\ f.offset <= f.ecryptfs_file_size)
            => /\ f.got = NoCounts
               /\ f.commits = << >>
               /\ i_size = f.ecryptfs_file_size
               /\ FileView = f.old
               /\ lower = f.old_lower
               /\ Returned(t) =>
                    \/ f.rc = "0"
                    \/ f.op = "write2" /\ Encrypted /\ f.rc = f.crypt_rc

C3_Witness ==
    \E t \in Threads :
        /\ Returned(t) /\ IsWrite(fr[t]) /\ fr[t].length = 0
        /\ fr[t].ecryptfs_file_size > 0
        /\ fr[t].offset <= fr[t].ecryptfs_file_size

\* The pages and the positions of the range a call was asked to write.
PagesOf(f) == PageIdx(f.offset) .. PageIdx(f.offset + f.length - 1)
RangeOf(f) == {p \in Positions : p >= f.offset /\ p < f.offset + f.length}

\* C4: when two write calls to disjoint page ranges run concurrently and
\* both return success, each range holds its writer's data and the size is
\* the maximum of the old size and both end offsets.
C4_DisjointWritersKeepDataAndSize ==
    LET f == fr[1]
        g == fr[2]
    IN  (/\ Returned(1) /\ Returned(2)
         /\ f.op = "write" /\ g.op = "write" /\ f.rc = "0" /\ g.rc = "0"
         /\ f.length > 0 /\ g.length > 0
         /\ PagesOf(f) \cap PagesOf(g) = {})
            => /\ i_size = Max(Min(f.ecryptfs_file_size, g.ecryptfs_file_size),
                               Max(f.offset + f.length, g.offset + g.length))
               /\ \A p \in RangeOf(f) : FileByte(p) = DataAt(f, p)
               /\ \A p \in RangeOf(g) : FileByte(p) = DataAt(g, p)

\* C5: when two write calls to overlapping ranges run concurrently, then as
\* the later of the two returns, the overlapping bytes, in the page cache
\* and in the lower file, are those of the writer returning last.
C5_LastWriterToCompleteWins ==
    [][\A t, u \in Threads :
          (/\ t # u
           /\ fr[u].op = "write" /\ fr[u].pc = "done" /\ fr[u].rc = "0"
           /\ fr[t].op = "write" /\ fr[t].pc # "done"
           /\ fr'[t].pc = "done" /\ fr'[t].rc = "0")
              => \A p \in RangeOf(fr[t]) \cap RangeOf(fr[u]) :
                    /\ FileByte(p)' = DataAt(fr[t], p)
                    /\ LowerByte(p)' = DataAt(fr[t], p)]_vars

\* C6: in the batched write, every page acquired during the call has been
\* released exactly once when the call returns, on every exit path.
C6_BatchedWriteReleasesEveryPage ==
    \A t \in Threads :
        (Returned(t) /\ fr[t].op = "write2") => fr[t].put = fr[t].got

\* C7: in the read engine, every page acquired and locked during the call
\* has been unlocked and released when the call returns, on every exit path.
C7_ReadReleasesEveryPage ==
    \A t \in Threads :
        (Returned(t) /\ fr[t].op = "read2")
            => (fr[t].put = fr[t].got /\ fr[t].unlocked = fr[t].got)

\* C8: the sequential write holds at most one page at any time; a page it
\* acquired is unlocked once and released once before the next page is
\* acquired and before the call returns, on every exit path.
C8_SequentialWriteHoldsOnePage ==
    \A t \in Threads :
        LET f == fr[t] IN
        f.op = "write"
            => /\ \A p \in Pages : /\ f.got[p] - f.put[p] \in {0, 1}
                                   /\ f.got[p] - f.unlocked[p] \in {0, 1}
                                   /\ f.unlocked[p] >= f.put[p]
               /\ Cardinality({p \in Pages : f.got[p] > f.put[p]}) <= 1
               /\ f.pc \in {"w_loop", "w_get", "w_size", "w_meta", "done"}
                    => (f.put = f.got /\ f.unlocked = f.got)

C8_Witness ==
    \E t \in Threads :
        /\ Returned(t) /\ fr[t].op = "write" /\ fr[t].rc \in {"ECRYPTO", "EIO"}
        /\ Cardinality({p \in Pages : fr[t].got[p] > 0}) >= 2

\* C9: in the batched write on an encrypted file, when the group encryption
\* of the batch fails, the call returns that error, also when the write
\* extends the file and the size persist succeeds.
C9_GroupEncryptErrorReturned ==
    \A t \in Threads :
        LET f == fr[t] IN
        (Returned(t) /\ f.op = "write2" /\ Encrypted /\ f.crypt_rc # "0"
                     /\ f.rc # "EMETA")
            => f.rc = f.crypt_rc

\* C10: in both write variants, once the signal is raised the call reads it
\* at the start of the next iteration, acquires no further page, returns
\* the cancellation error, and what earlier iterations committed stays.
AtIterationStart(f) ==
    f.pc \in {"w_loop", "w2_loop"} /\ WalkContinues(f.pos, f.offset, f.size)

C10_CancellationStopsTheWalk ==
    /\ [][\A t \in Threads :
            (signal[t] /\ AtIterationStart(fr[t]) /\ fr'[t] # fr[t])
                => /\ fr'[t].rc = "EINTR"
                   /\ fr'[t].got = fr[t].got
                   /\ fr'[t].pc \notin {"w_get", "w2_get"}]_vars
    /\ [][\A t \in Threads :
            (fr[t].rc = "EINTR" /\ fr[t].pc # "done")
                => /\ fr'[t].rc = "EINTR"
                   /\ fr'[t].got = fr[t].got
                   /\ fr'[t].commits = fr[t].commits
                   /\ lower' = lower
                   /\ cache' = cache]_vars

\* C11: a read whose offset is at or beyond the size at entry transfers no
\* bytes, returns 0 and not an error, and leaves the size unchanged, for
\* every length and every mode of the file (no collaborator failing).
C11_ReadPastEndReturnsZero ==
    \A t \in Threads :
        LET f == fr[t] IN
        (f.op = "read2" /\ f.offset >= f.ecryptfs_file_size /\ NoFault)
            => /\ f.pc # "oops"
               /\ f.written = 0
               /\ f.out = << >>
               /\ f.rc = "0"
               /\ i_size = f.ecryptfs_file_size

\* C12: across the calls one thread makes one after another, whatever their
\* outcomes, no step decreases the size, and no step of a read changes it.
C12_SizeNeverDecreases ==
    [][/\ i_size' >= i_size
       /\ \A t \in Threads :
            (fr[t].op = "read2" /\ fr'[t].op = "read2") => i_size' = i_size]_vars

C12_Witness ==
    \E t \in Threads :
        /\ Returned(t) /\ IsWrite(fr[t])
        /\ fr[t].ecryptfs_file_size > 1
        /\ fr[t].offset + fr[t].length < fr[t].ecryptfs_file_size
        /\ fr[t].length > 0
        /\ i_size = fr[t].ecryptfs_file_size

\* C13: every read call marks the file accessed before it returns, on
\* every outcome, the failed allocation of the page batch included.
C13_ReadMarksFileAccessed ==
    [][\A t \in Threads :
          (fr'[t] # fr[t] /\ fr'[t].op = "read2" /\ fr'[t].pc = "done")
              => accessed' = accessed + 1]_vars

\* C14: on an encrypted file, when a write that extends the file has
\* committed its pages without error and the size persist then fails, the
\* call returns the persist's error, the size keeps its extended value and
\* neither the page cache nor the lower file is rolled back; on a plaintext
\* file the size persist is never invoked.
C14_SizePersistFailureSurfaced ==
    /\ [][\A t \in Threads :
            LET f == fr[t] IN
            (/\ f.pc \in {"w_meta", "w2_meta"} /\ f.rc = "0"
             /\ fr'[t].pc = "done" /\ faults' < faults)
                => /\ Encrypted
                   /\ fr'[t].rc = "EMETA"
                   /\ i_size' = i_size
                   /\ i_size' > f.ecryptfs_file_size
                   /\ i_size' = (IF f.op = "write" THEN f.pos
                                 ELSE f.offset + f.size)
                   /\ cache' = cache
                   /\ lower' = lower]_vars
    /\ [](mode = "plaintext"
            => /\ meta_size = 0
               /\ \A t \in Threads : fr[t].pc \notin {"w_meta", "w2_meta"})

C14_Witness ==
    \E t \in Threads :
        /\ Returned(t) /\ fr[t].op = "write" /\ Encrypted
        /\ fr[t].rc = "EMETA" /\ Len(fr[t].commits) >= 2
        /\ i_size > fr[t].ecryptfs_file_size
        /\ meta_size = fr[t].ecryptfs_file_size

\* C15: in the read engine on an encrypted file, for every offset and length
\* with offset + length within the size, the pages acquired are the pages
\* spanned by [offset, offset + length), and each copy step reads from the
\* page that contains its position: the bytes returned are those of the
\* file from offset on.
C15_ReadIndexesPagesFromOffset ==
    \A t \in Threads :
        LET f == fr[t] IN
        (/\ Returned(t) /\ f.op = "read2" /\ NoFault /\ ~nodec
         /\ f.size > 0 /\ f.offset + f.size <= f.ecryptfs_file_size)
            => /\ {p \in Pages : f.got[p] > 0}
                    = PageIdx(f.offset) .. PageIdx(f.offset + f.size - 1)
               /\ f.written = f.size
               /\ \A k \in 1 .. Len(f.out) :
                    f.out[k] = LowerByte(f.offset + k - 1)

\* C16: in the sequential write on a plaintext file, each step that commits
\* writes to the lower file exactly the bytes of its page from offset_in_page
\* on that it modified, num_bytes of them, at the page's position plus
\* offset_in_page, and no other byte of the lower file; for hole-filling
\* steps, data steps and every step of a write of several pages.
C16_StepPersistsItsByteRange ==
    [][\A t \in Threads :
          LET f == fr[t] IN
          (/\ f.op = "write" /\ f.pc = "w_commit" /\ ~Encrypted
           /\ fr'[t].pc = "w_loop")
              => \A p \in Positions :
                    lower'[p] = IF p >= f.pos /\ p < f.pos + f.num_bytes
                                THEN cache[PageIdx(p)][OffsetInPage(p) + 1]
                                ELSE lower[p]]_vars

\* The statuses with which the sequential walk leaves by goto out.
WalkAborted(f) == f.rc \in {"EPAGE", "ECRYPTO", "EIO"}

\* C17 as stated: whenever a sequential write returns with its position
\* beyond the size at entry, the size is the position reached: on success,
\* on cancellation and on abort by a page-acquire or commit error.
C17_SizeIsFinalPos ==
    \A t \in Threads :
        LET f == fr[t] IN
        (Returned(t) /\ f.op = "write" /\ f.pos > f.ecryptfs_file_size)
            => i_size = f.pos

\* C17 amended: whenever a sequential write returns with its position
\* beyond the size at entry, the size is the position reached when the walk
\* completed or was cancelled, and the size at entry when the walk aborted
\* on a page-acquire or commit error.
C17_SizeIsFinalPosUnlessAborted ==
    \A t \in Threads :
        LET f == fr[t] IN
        (Returned(t) /\ f.op = "write" /\ f.pos > f.ecryptfs_file_size)
            => i_size = (IF WalkAborted(f) THEN f.ecryptfs_file_size ELSE f.pos)

C17_Witness ==
    \E t \in Threads :
        /\ Returned(t) /\ fr[t].op = "write" /\ fr[t].rc = "EINTR"
        /\ fr[t].commits # << >>
        /\ fr[t].ecryptfs_file_size > 0
        /\ fr[t].pos > fr[t].ecryptfs_file_size
        /\ fr[t].pos < fr[t].offset + fr[t].length

C19_BatchWithinCapacity ==
    \A t \in Threads :
        LET f == fr[t] IN
        (f.op = "write2" /\ Encrypted)
            => /\ ~f.overrun
               /\ f.pc = "w2_crypt"
                    => \A p \in Pages : CountIn(f.pgs, p) = f.got[p]

\* C20: a successful write at an offset at or below the size at entry
\* leaves every byte of the file below that size and outside
\* [offset, offset + length) as it was.
C20_WriteWithinFileKeepsOtherBytes ==
    \A t \in Threads :
        LET f == fr[t] IN
        (/\ Returned(t) /\ IsWrite(f) /\ f.rc = "0" /\ NoFault
         /\ f.offset <= f.ecryptfs_file_size)
            => \A p \in Positions :
                  (p < f.ecryptfs_file_size
                     /\ (p < f.offset \/ p >= f.offset + f.length))
                      => FileByte(p) = f.old[p]

\* C21: a read at an offset below the size at entry never transfers bytes
\* from beyond the end of the file: at every step of the call the bytes
\* transferred are at most size - offset, the position copied up to is at
\* most the size, and no copy step takes a page past those acquired.
C21_ReadStaysBelowEndOfFile ==
    \A t \in Threads :
        LET f == fr[t] IN
        (f.op = "read2" /\ f.offset < f.ecryptfs_file_size)
            => /\ f.written <= f.ecryptfs_file_size - f.offset
               /\ f.pos <= f.ecryptfs_file_size
               /\ ~f.overrun

\* C22: on a file read without decryption (plaintext or view), a read of a
\* non-empty extent inside the file never stores to or loads from the batch
\* that was not allocated, and returns the requested bytes as the page fill
\* delivers them.
C22_ReadWithoutBatchIsSafe ==
    \A t \in Threads :
        LET f == fr[t] IN
        (/\ f.op = "read2" /\ nodec /\ f.size > 0
         /\ f.offset + f.size <= f.ecryptfs_file_size)
            => /\ f.pc # "oops"
               /\ ~f.overrun
               /\ (Returned(t) /\ NoFault)
                    => /\ f.written = f.size
                       /\ \A k \in 1 .. Len(f.out) :
                            f.out[k] = LowerByte(f.offset + k - 1)

\* The states of a write call inside an iteration, its step length computed
\* and its position not yet advanced.
InIteration(f) ==
    f.pc \in {"w_get", "w_zero", "w_copy", "w_commit",
              "w2_get", "w2_zero", "w2_copy", "w2_commit"}

\* C23: in every iteration of either write walk the page acquired is the
\* page pos div PAGE_SIZE, the step length is at least 1, the step stays
\* inside its page and inside the request, and a hole-filling step ends at
\* or before offset; no step of a call decreases pos and every completed
\* iteration increases it; a call that returns without error or
\* cancellation has pos = offset + length and has consumed length bytes of
\* the caller's data.
C23_WalkArithmetic ==
    /\ [](\A t \in Threads :
            LET f == fr[t] IN
            IsWrite(f)
                => /\ f.pos <= f.offset + f.size
                   /\ f.data_offset <= f.size
                   /\ InIteration(f)
                        => /\ f.num_bytes >= 1
                           /\ OffsetInPage(f.pos) + f.num_bytes <= PAGE_SIZE
                           /\ f.pos + f.num_bytes <= f.offset + f.size
                           /\ f.pos < f.offset
                                => f.pos + f.num_bytes <= f.offset
                   /\ f.pc \in {"w_zero", "w_copy", "w2_zero", "w2_copy"}
                        => locked[PageIdx(f.pos)] = t
                   /\ (Returned(t) /\ f.rc \in {"0", "EMETA"})
                        => /\ f.pos = f.offset + f.size
                           /\ f.data_offset = f.size)
    /\ [][\A t \in Threads :
            (IsWrite(fr[t]) /\ fr[t].pc \notin {"idle", "done"})
                => /\ fr'[t].pos >= fr[t].pos
                   /\ (fr[t].pc \in {"w_commit", "w2_commit"}
                         /\ fr'[t].pc \in {"w_loop", "w2_loop"})
                        => fr'[t].pos > fr[t].pos]_vars

C23_Witness ==
    \E t \in Threads :
        LET f == fr[t] IN
        /\ Returned(t) /\ IsWrite(f) /\ f.rc = "0"
        /\ f.ecryptfs_file_size > 0
        /\ f.offset > f.ecryptfs_file_size
        /\ OffsetInPage(f.offset) # 0
        /\ PageIdx(f.offset + f.size - 1) > PageIdx(f.offset)
        /\ f.pos = f.offset + f.size
====
